---- MODULE Spec2Model ----
(***************************************************************************)
(* The stack-based bytecode virtual machine of src/src/vm/mod.rs.          *)
(*                                                                         *)
(* The state is the VM struct (instructions, constants, stack, globals,    *)
(* sp), the local instruction pointer of run(), the position of run()      *)
(* (looping, returned or panicked) and a log of the executed instructions. *)
(* One action models one arm of the match in run(); one more models the    *)
(* default arm and one the exit of the while loop.                         *)
(*                                                                         *)
(* Scaling: the stack and the globals table have STACK_SIZE and            *)
(* GLOBAL_SIZE slots (2048 in the source) and Object::Integer holds a      *)
(* signed integer of IntBits bits (64 in the source).                      *)
(***************************************************************************)
EXTENDS Integers, Sequences, FiniteSets, TLC

VARIABLES
    instructions,   \* VM.instructions : Vec<u8>
    constants,      \* VM.constants    : Vec<Object>
    stack,          \* VM.stack        : [Object; STACK_SIZE]
    globals,        \* VM.globals      : [Object; GLOBAL_SIZE]
    sp,             \* VM.sp           : next free slot of the stack
    ip,             \* the local ip of run()
    pc,             \* position of run(): "run", "returned" or "panicked"
    panic_msg,      \* the message of the panic that ended run(), or ""
    trace           \* the instructions executed so far, oldest first

vars == <<instructions, constants, stack, globals, sp, ip, pc, panic_msg, trace>>

-----------------------------------------------------------------------------
(* Bounds of the model *)

\* width in bits of the signed integer held by Object::Integer
IntBits == 4
\* number of slots of the value stack
STACK_SIZE == 3
\* number of slots of the globals table
GLOBAL_SIZE == 2
\* longest instruction stream of arbitrary bytes
MaxBytes == 2
\* most statements of a program over the global bindings
MaxStmts == 3
\* run() is followed for at most this many instructions
MaxSteps == 12

-----------------------------------------------------------------------------
(* Objects *)

RECURSIVE Pow2(_)
Pow2(n) == IF n = 0 THEN 1 ELSE 2 * Pow2(n - 1)

MinInt == -Pow2(IntBits - 1)
MaxInt == Pow2(IntBits - 1) - 1
Ints == MinInt..MaxInt

Integer(n) == [type |-> "Integer", int |-> n, bool |-> FALSE]
Boolean(b) == [type |-> "Boolean", int |-> 0, bool |-> b]
Null == [type |-> "Null", int |-> 0, bool |-> FALSE]

\* a slot of all-zero bytes, as std::mem::zeroed() leaves it
Zeroed == [type |-> "Zeroed", int |-> 0, bool |-> FALSE]

IsInteger(obj) == obj.type = "Integer"
IsBoolean(obj) == obj.type = "Boolean"

\* the values the compiler can put on the stack
Value == {Integer(n) : n \in Ints} \cup {Boolean(b) : b \in BOOLEAN}

\* what a read of a zeroed slot may produce: the build decides
ZeroedReads == {Null, Integer(0), Boolean(FALSE)}

\* Object::clone of a slot
clone(obj) == IF obj = Zeroed THEN ZeroedReads ELSE {obj}

\* two's complement wrap-around of a result that left the integer range
Wrap(n) == ((n - MinInt) % Pow2(IntBits)) + MinInt


\* crate::code::convert_two_u8s_be_to_usize
convert_two_u8s_be_to_usize(hi, lo) == hi * 256 + lo

-----------------------------------------------------------------------------
(* The VM while one instruction executes *)

\* The fields an instruction can change, the panic raised so far ("" for none)
\* and the objects the instruction has popped and pushed, in order.
Machine ==
    [stack |-> stack, sp |-> sp, globals |-> globals, ip |-> ip,
     panic |-> "", popped |-> <<>>, pushed |-> <<>>]

\* panic!(msg): the rest of the instruction is skipped
Panic(m, msg) == IF m.panic # "" THEN m ELSE [m EXCEPT !.panic = msg]

\* push forgetting to move the stack pointer
pushNoIncrement(m, obj) ==
    IF m.panic # "" THEN m
    ELSE IF m.sp >= STACK_SIZE THEN Panic(m, "index out of bounds")
    ELSE [m EXCEPT !.stack[m.sp] = obj,
                   !.pushed = Append(@, obj)]

\* push moving the stack pointer before the write: the object lands one
\* slot too high
pushAfterIncrement(m, obj) ==
    IF m.panic # "" THEN m
    ELSE IF m.sp + 1 >= STACK_SIZE THEN Panic(m, "index out of bounds")
    ELSE [m EXCEPT !.stack[m.sp + 1] = obj,
                   !.sp = m.sp + 1,
                   !.pushed = Append(@, obj)]

\* push on an unchecked array: sp = STACK_SIZE writes nowhere and sp moves on
pushUnchecked(m, obj) ==
    IF m.panic # "" THEN m
    ELSE IF m.sp >= STACK_SIZE
    THEN [m EXCEPT !.sp = m.sp + 1, !.pushed = Append(@, obj)]
    ELSE [m EXCEPT !.stack[m.sp] = obj,
                   !.sp = m.sp + 1,
                   !.pushed = Append(@, obj)]

\* VM::push. The array index is checked: sp = STACK_SIZE panics before the
\* write and before sp changes.
push(m, obj) ==
    IF m.panic # "" THEN m
    ELSE IF m.sp >= STACK_SIZE THEN Panic(m, "index out of bounds")
    ELSE [m EXCEPT !.stack[m.sp] = obj,
                   !.sp = m.sp + 1,
                   !.pushed = Append(@, obj)]

\* pop moving the object out of its slot (mem::replace) instead of cloning it
popReplacing(m) ==
    IF m.panic # "" THEN m
    ELSE IF m.sp = 0 THEN Panic(m, "index out of bounds")
    ELSE [m EXCEPT !.stack[m.sp - 1] = Null,
                   !.sp = m.sp - 1,
                   !.popped = Append(@, m.stack[m.sp - 1])]

\* VM::pop. At sp = 0 the subtraction sp - 1 overflows (debug build) or the
\* index usize::MAX is out of bounds (release build): a panic either way,
\* before sp changes. The object returned is the last element of m.popped.
pop(m) ==
    IF m.panic # "" THEN m
    ELSE IF m.sp = 0 THEN Panic(m, "index out of bounds")
    ELSE [m EXCEPT !.sp = m.sp - 1,
                   !.popped = Append(@, m.stack[m.sp - 1])]

\* VM::last_popped: the slot at sp
last_popped == stack[sp]

\* instructions[a], addresses counted from 0
Byte(a) == instructions[a + 1]

\* ip += n
Advance(m, n) == IF m.panic # "" THEN m ELSE [m EXCEPT !.ip = m.ip + n]

\* Reading the two operand bytes instructions[ip], instructions[ip + 1]:
\* an index at or beyond the stream length panics.
ReadOperand(m) ==
    IF m.panic # "" THEN m
    ELSE IF m.ip + 1 >= Len(instructions) THEN Panic(m, "index out of bounds")
    ELSE m

\* the operand of the instruction whose opcode is at m.ip - 1
Operand(m) == convert_two_u8s_be_to_usize(Byte(m.ip), Byte(m.ip + 1))

-----------------------------------------------------------------------------
(* The arms of the match expressions: each gives the outcomes the build can *)
(* produce, an object to push or a panic.                                   *)

Ok(obj) == [panic |-> "", obj |-> obj]
Err(msg) == [panic |-> msg, obj |-> Null]

\* An i64 result: in range it is the result; out of range the debug build
\* panics and the release build wraps around.
Checked(n, msg) ==
    IF n \in Ints THEN {Ok(Integer(n))} ELSE {Err(msg), Ok(Integer(Wrap(n)))}

\* the quotient rounded toward minus infinity
FlooredDiv(left, right) ==
    LET al == IF left < 0 THEN -left ELSE left
        ar == IF right < 0 THEN -right ELSE right
        q == al \div ar
    IN  IF (left < 0) = (right < 0) THEN q
        ELSE IF al % ar = 0 THEN -q ELSE -q - 1

\* Rust's / on integers: the quotient truncated toward zero
TruncDiv(left, right) ==
    LET al == IF left < 0 THEN -left ELSE left
        ar == IF right < 0 THEN -right ELSE right
        q == al \div ar
    IN  IF (left < 0) = (right < 0) THEN q ELSE -q

\* a division that answers 0 when the divisor is 0
CheckedDivZeroIsZero(left, right) ==
    IF right = 0 THEN {Ok(Integer(0))}
    ELSE IF TruncDiv(left, right) \notin Ints
         THEN {Err("attempt to divide with overflow")}
    ELSE {Ok(Integer(TruncDiv(left, right)))}

\* left / right: division by zero and MIN / -1 panic in every build
CheckedDiv(left, right) ==
    IF right = 0 THEN {Err("attempt to divide by zero")}
    ELSE IF TruncDiv(left, right) \notin Ints
         THEN {Err("attempt to divide with overflow")}
    ELSE {Ok(Integer(TruncDiv(left, right)))}

\* OpAdd taking a Boolean operand for 0 or 1
AddArmsCoercing(right, left) ==
    IF (IsInteger(right) \/ IsBoolean(right))
        /\ (IsInteger(left) \/ IsBoolean(left))
    THEN LET r == IF IsBoolean(right) THEN (IF right.bool THEN 1 ELSE 0)
                  ELSE right.int
             l == IF IsBoolean(left) THEN (IF left.bool THEN 1 ELSE 0)
                  ELSE left.int
         IN  Checked(l + r, "attempt to add with overflow")
    ELSE {Err("unhandled argument types to OpAdd")}

AddArms(right, left) ==
    IF IsInteger(right) /\ IsInteger(left)
    THEN Checked(left.int + right.int, "attempt to add with overflow")
    ELSE {Err("unhandled argument types to OpAdd")}

\* OpSub with its operands taken in the wrong order
SubArmsSwapped(right, left) ==
    IF IsInteger(right) /\ IsInteger(left)
    THEN Checked(right.int - left.int, "attempt to subtract with overflow")
    ELSE {Err("unhandled argument types to OpSub")}

SubArms(right, left) ==
    IF IsInteger(right) /\ IsInteger(left)
    THEN Checked(left.int - right.int, "attempt to subtract with overflow")
    ELSE {Err("unhandled argument types to OpSub")}

MulArms(right, left) ==
    IF IsInteger(right) /\ IsInteger(left)
    THEN Checked(left.int * right.int, "attempt to multiply with overflow")
    ELSE {Err("unhandled argument types to OpMul")}

\* OpDiv with its operands taken in the wrong order
DivArmsSwapped(right, left) ==
    IF IsInteger(right) /\ IsInteger(left)
    THEN CheckedDiv(right.int, left.int)
    ELSE {Err("unhandled argument types to OpDiv")}

DivArms(right, left) ==
    IF IsInteger(right) /\ IsInteger(left)
    THEN CheckedDiv(left.int, right.int)
    ELSE {Err("unhandled argument types to OpDiv")}

\* OpEquals answering false for operands of different types
EqualsArmsLenient(right, left) ==
    IF IsInteger(right) /\ IsInteger(left)
    THEN {Ok(Boolean(left.int = right.int))}
    ELSE IF IsBoolean(right) /\ IsBoolean(left)
    THEN {Ok(Boolean(left.bool = right.bool))}
    ELSE {Ok(Boolean(FALSE))}

EqualsArms(right, left) ==
    IF IsInteger(right) /\ IsInteger(left)
    THEN {Ok(Boolean(left.int = right.int))}
    ELSE IF IsBoolean(right) /\ IsBoolean(left)
    THEN {Ok(Boolean(left.bool = right.bool))}
    ELSE {Err("unhandled argument types to OpEquals")}

NotEqualsArms(right, left) ==
    IF IsInteger(right) /\ IsInteger(left)
    THEN {Ok(Boolean(left.int # right.int))}
    ELSE IF IsBoolean(right) /\ IsBoolean(left)
    THEN {Ok(Boolean(left.bool # right.bool))}
    ELSE {Err("unhandled argument types to OpNotEquals")}

\* OpGreaterThan comparing with >=
GreaterOrEqualArms(right, left) ==
    IF IsInteger(right) /\ IsInteger(left)
    THEN {Ok(Boolean(left.int >= right.int))}
    ELSE {Err("unhandled argument types to OpGreaterThan")}

GreaterThanArms(right, left) ==
    IF IsInteger(right) /\ IsInteger(left)
    THEN {Ok(Boolean(left.int > right.int))}
    ELSE {Err("unhandled argument types to OpGreaterThan")}

MinusArms(obj) ==
    IF IsInteger(obj)
    THEN Checked(-obj.int, "attempt to negate with overflow")
    ELSE {Err("unhandled arg type to OpMinus")}

\* OpBang taking an integer for a truthy value
BangArmsTruthy(obj) ==
    IF IsBoolean(obj)
    THEN {Ok(Boolean(~obj.bool))}
    ELSE IF IsInteger(obj) THEN {Ok(Boolean(FALSE))}
    ELSE {Err("unhandled arg type to OpBang")}

BangArms(obj) ==
    IF IsBoolean(obj)
    THEN {Ok(Boolean(~obj.bool))}
    ELSE {Err("unhandled arg type to OpBang")}

\* The arm taken pushes its object or panics.
Finish(m, out) ==
    IF m.panic # "" THEN m
    ELSE IF out.panic # "" THEN Panic(m, out.panic)
    ELSE push(m, out.obj)

-----------------------------------------------------------------------------
(* run() *)

\* One iteration of the while loop starts: the loop condition holds and the
\* byte at ip is the opcode op.
Fetch(op) ==
    /\ pc = "run"
    /\ Len(trace) < MaxSteps
    /\ ip < Len(instructions)
    /\ Byte(ip) = op

\* the fetch leaving ip on the opcode byte
StartedNoAdvance == Machine

\* let instruction_address = ip; ip += 1;
Started == [Machine EXCEPT !.ip = ip + 1]

\* The instruction is over: the VM takes the fields of m, and a panic ends
\* run().
Commit(m) ==
    /\ stack' = m.stack
    /\ sp' = m.sp
    /\ globals' = m.globals
    /\ ip' = m.ip
    /\ pc' = IF m.panic = "" THEN "run" ELSE "panicked"
    /\ panic_msg' = m.panic
    /\ trace' = Append(trace, [addr |-> ip, popped |-> m.popped,
                               pushed |-> m.pushed, panic |-> m.panic])
    /\ UNCHANGED <<instructions, constants>>

\* self.constants[const_index].clone() pushed, or the index out of bounds
PushConstant(m, const_index) ==
    IF m.panic # "" THEN m
    ELSE IF const_index >= Len(constants) THEN Panic(m, "index out of bounds")
    ELSE push(m, constants[const_index + 1])

OpConstant ==
    /\ Fetch(1)
    /\ LET m == ReadOperand(Started)
       IN  Commit(IF m.panic # "" THEN m
                  ELSE PushConstant(Advance(m, 2), Operand(m)))

OpPop ==
    /\ Fetch(2)
    /\ Commit(pop(Started))

OpAdd ==
    /\ Fetch(3)
    /\ LET m == pop(pop(Started))
       IN  IF m.panic # "" THEN Commit(m)
           ELSE \E out \in AddArms(m.popped[1], m.popped[2]) :
                    Commit(Finish(m, out))

OpSub ==
    /\ Fetch(4)
    /\ LET m == pop(pop(Started))
       IN  IF m.panic # "" THEN Commit(m)
           ELSE \E out \in SubArms(m.popped[1], m.popped[2]) :
                    Commit(Finish(m, out))

OpMul ==
    /\ Fetch(5)
    /\ LET m == pop(pop(Started))
       IN  IF m.panic # "" THEN Commit(m)
           ELSE \E out \in MulArms(m.popped[1], m.popped[2]) :
                    Commit(Finish(m, out))

OpDiv ==
    /\ Fetch(6)
    /\ LET m == pop(pop(Started))
       IN  IF m.panic # "" THEN Commit(m)
           ELSE \E out \in DivArms(m.popped[1], m.popped[2]) :
                    Commit(Finish(m, out))

OpTrue ==
    /\ Fetch(7)
    /\ Commit(push(Started, Boolean(TRUE)))

OpFalse ==
    /\ Fetch(8)
    /\ Commit(push(Started, Boolean(FALSE)))

OpEquals ==
    /\ Fetch(9)
    /\ LET m == pop(pop(Started))
       IN  IF m.panic # "" THEN Commit(m)
           ELSE \E out \in EqualsArms(m.popped[1], m.popped[2]) :
                    Commit(Finish(m, out))

OpNotEquals ==
    /\ Fetch(10)
    /\ LET m == pop(pop(Started))
       IN  IF m.panic # "" THEN Commit(m)
           ELSE \E out \in NotEqualsArms(m.popped[1], m.popped[2]) :
                    Commit(Finish(m, out))

OpGreaterThan ==
    /\ Fetch(11)
    /\ LET m == pop(pop(Started))
       IN  IF m.panic # "" THEN Commit(m)
           ELSE \E out \in GreaterThanArms(m.popped[1], m.popped[2]) :
                    Commit(Finish(m, out))

OpMinus ==
    /\ Fetch(12)
    /\ LET m == pop(Started)
       IN  IF m.panic # "" THEN Commit(m)
           ELSE \E out \in MinusArms(m.popped[1]) : Commit(Finish(m, out))

OpBang ==
    /\ Fetch(13)
    /\ LET m == pop(Started)
       IN  IF m.panic # "" THEN Commit(m)
           ELSE \E out \in BangArms(m.popped[1]) : Commit(Finish(m, out))

\* the arms of OpJumpNotTrue exchanged: a jump if true
JumpIfTrueArm(m, obj) ==
    IF obj = Boolean(FALSE) THEN Advance(m, 2)
    ELSE IF obj = Boolean(TRUE)
    THEN LET r == ReadOperand(m)
         IN  IF r.panic # "" THEN r ELSE [r EXCEPT !.ip = Operand(m)]
    ELSE Panic(m, "unhandled arg type to OpJumpNotTrue")

\* OpJumpNotTrue skipping one operand byte instead of two when it does not
\* jump
JumpNotTrueArmShortSkip(m, obj) ==
    IF obj = Boolean(TRUE) THEN Advance(m, 1)
    ELSE IF obj = Boolean(FALSE)
    THEN LET r == ReadOperand(m)
         IN  IF r.panic # "" THEN r ELSE [r EXCEPT !.ip = Operand(m)]
    ELSE Panic(m, "unhandled arg type to OpJumpNotTrue")

\* The arms of OpJumpNotTrue: true skips the operand without reading it,
\* false reads it and jumps, anything else panics.
JumpNotTrueArm(m, obj) ==
    IF obj = Boolean(TRUE) THEN Advance(m, 2)
    ELSE IF obj = Boolean(FALSE)
    THEN LET r == ReadOperand(m)
         IN  IF r.panic # "" THEN r ELSE [r EXCEPT !.ip = Operand(m)]
    ELSE Panic(m, "unhandled arg type to OpJumpNotTrue")

OpJumpNotTrue ==
    /\ Fetch(14)
    /\ LET m == pop(Started)
       IN  Commit(IF m.panic # "" THEN m ELSE JumpNotTrueArm(m, m.popped[1]))

\* OpJump skipping its operand instead of jumping
OpJumpFallsThrough ==
    /\ Fetch(15)
    /\ LET m == ReadOperand(Started)
       IN  Commit(IF m.panic # "" THEN m ELSE Advance(m, 2))

OpJump ==
    /\ Fetch(15)
    /\ LET m == ReadOperand(Started)
       IN  Commit(IF m.panic # "" THEN m ELSE [m EXCEPT !.ip = Operand(m)])

\* the store ignoring its operand: every binding lands in slot 0
StoreGlobalSlot0(m, global_index) ==
    IF m.panic # "" THEN m
    ELSE IF global_index >= GLOBAL_SIZE THEN Panic(m, "index out of bounds")
    ELSE [m EXCEPT !.globals[0] = m.popped[1]]

\* self.globals[global_index] = value, or the index out of bounds
StoreGlobal(m, global_index) ==
    IF m.panic # "" THEN m
    ELSE IF global_index >= GLOBAL_SIZE THEN Panic(m, "index out of bounds")
    ELSE [m EXCEPT !.globals[global_index] = m.popped[1]]

OpSetGlobal ==
    /\ Fetch(16)
    /\ LET m == ReadOperand(Started)
       IN  Commit(IF m.panic # "" THEN m
                  ELSE StoreGlobal(pop(Advance(m, 2)), Operand(m)))

\* OpGetGlobal moving the object out of the global slot (mem::take)
OpGetGlobalTaking ==
    /\ Fetch(17)
    /\ LET m == ReadOperand(Started)
       IN  IF m.panic # "" THEN Commit(m)
           ELSE IF Operand(m) >= GLOBAL_SIZE
           THEN Commit(Panic(Advance(m, 2), "index out of bounds"))
           ELSE \E obj \in clone(globals[Operand(m)]) :
                    Commit([push(Advance(m, 2), obj) EXCEPT
                                !.globals[Operand(m)] = Null])

OpGetGlobal ==
    /\ Fetch(17)
    /\ LET m == ReadOperand(Started)
       IN  IF m.panic # "" THEN Commit(m)
           ELSE IF Operand(m) >= GLOBAL_SIZE
           THEN Commit(Panic(Advance(m, 2), "index out of bounds"))
           ELSE \E obj \in clone(globals[Operand(m)]) :
                    Commit(push(Advance(m, 2), obj))

\* the opcodes run() knows
Opcodes == 1..17

\* an unknown opcode skipped as a no-op
UnhandledInstructionSkipped ==
    /\ \E op \in (0..255) \ Opcodes : Fetch(op)
    /\ Commit(Started)

\* _ => panic!("unhandled instruction")
UnhandledInstruction ==
    /\ \E op \in (0..255) \ Opcodes : Fetch(op)
    /\ Commit(Panic(Started, "unhandled instruction"))

\* The loop condition ip < instructions.len() fails: run() returns.
RunReturn ==
    /\ pc = "run"
    /\ ip >= Len(instructions)
    /\ pc' = "returned"
    /\ UNCHANGED <<instructions, constants, stack, globals, sp, ip,
                   panic_msg, trace>>

-----------------------------------------------------------------------------
(* The compiled programs run() is started on *)

\* The encoding of the instructions (crate::code): the opcode byte followed
\* by the big-endian bytes of a 2-byte operand.
Constant(i) == <<1, i \div 256, i % 256>>
Pop == <<2>>
Add == <<3>>
Sub == <<4>>
Mul == <<5>>
Div == <<6>>
True == <<7>>
False == <<8>>
Equals == <<9>>
NotEquals == <<10>>
GreaterThan == <<11>>
Minus == <<12>>
Bang == <<13>>
JumpNotTrue(target) == <<14, target \div 256, target % 256>>
Jump(target) == <<15, target \div 256, target % 256>>
SetGlobal(i) == <<16, i \div 256, i % 256>>
GetGlobal(i) == <<17, i \div 256, i % 256>>

BinaryOps == {Add, Sub, Mul, Div, Equals, NotEquals, GreaterThan}

\* The constant pool: every integer, then false and true.
ConstantPool ==
    [k \in 1..(Pow2(IntBits) + 2) |->
        IF k <= Pow2(IntBits) THEN Integer(MinInt + k - 1)
        ELSE Boolean(k = Pow2(IntBits) + 2)]

\* the indices of the pool, and the index of a value in it
ConstIdx == 0..(Len(ConstantPool) - 1)
IdxOf(v) == CHOOSE i \in ConstIdx : ConstantPool[i + 1] = v

\* the sequences over S of length at most n
RECURSIVE SeqsUpTo(_, _)
SeqsUpTo(S, n) ==
    IF n = 0 THEN {<<>>}
    ELSE LET shorter == SeqsUpTo(S, n - 1)
         IN  shorter \cup {Append(q, x) : q \in shorter, x \in S}

\* the concatenation of a sequence of byte sequences
RECURSIVE Flatten(_)
Flatten(ss) == IF ss = <<>> THEN <<>> ELSE Head(ss) \o Flatten(Tail(ss))

\* every byte stream of at most MaxBytes bytes from 0x00 to 0x12 or 0xFF
RawPrograms == SeqsUpTo((0..18) \cup {255}, MaxBytes)

\* Constant(i); Constant(j); a binary opcode; with or without a final Pop
InfixPrograms ==
    {Constant(i) \o Constant(j) \o op \o tail :
        i \in ConstIdx, j \in ConstIdx, op \in BinaryOps, tail \in {<<>>, Pop}}

\* a push; Minus or Bang; with or without a final Pop
PrefixPrograms ==
    {push1 \o op \o tail :
        push1 \in {Constant(i) : i \in ConstIdx} \cup {True, False},
        op \in {Minus, Bang}, tail \in {<<>>, Pop}}

\* <condition>; JumpNotTrue(E); <consequence>; Jump(END); E: <alternative>;
\* END: <rest>
Conditional(condition, consequence, alternative, rest) ==
    LET E == Len(condition) + 3 + Len(consequence) + 3
        END == E + Len(alternative)
    IN  condition \o JumpNotTrue(E) \o consequence \o Jump(END)
            \o alternative \o rest

\* the blocks of a conditional: an expression statement
Blocks == {Constant(i) \o Pop : i \in ConstIdx}

ConditionalPrograms ==
    {Conditional(c, b1, b2, rest) :
        c \in {True, False, Constant(IdxOf(Integer(0)))},
        b1 \in Blocks, b2 \in Blocks,
        rest \in {<<>>, Constant(IdxOf(Integer(-1))) \o Pop}}

\* the statements over two global bindings: let g_i = v; g_i; let g_i = g_j;
GlobalStmts ==
    {Constant(IdxOf(v)) \o SetGlobal(i) :
        v \in {Integer(1), Boolean(TRUE)}, i \in 0..1}
    \cup {GetGlobal(i) \o Pop : i \in 0..1}
    \cup {GetGlobal(j) \o SetGlobal(i) : i \in 0..1, j \in 0..1}

GlobalPrograms == {Flatten(ss) : ss \in SeqsUpTo(GlobalStmts, MaxStmts)}

\* let one = 1; let two = one + one; one + two;
LetProgram ==
    Constant(IdxOf(Integer(1))) \o SetGlobal(0)
        \o GetGlobal(0) \o GetGlobal(0) \o Add \o SetGlobal(1)
        \o GetGlobal(0) \o GetGlobal(1) \o Add \o Pop

\* programs the compiler does not emit: indices out of range, jumps
\* backwards, a stack that only grows, a jump into the operand of a
\* Constant whose bytes read as a Jump to itself
MalformedPrograms ==
    {Constant(k) \o Pop : k \in {Len(ConstantPool), 256}}
    \cup {True \o SetGlobal(g) : g \in {GLOBAL_SIZE, 256}}
    \cup {GetGlobal(g) \o Pop : g \in {GLOBAL_SIZE, 256}}
    \cup {Jump(0), True \o Pop \o Jump(0), True \o Jump(0),
          True \o JumpNotTrue(0), False \o JumpNotTrue(0),
          False \o JumpNotTrue(9) \o Pop, Jump(9) \o Pop,
          Jump(4) \o Constant(15 * 256) \o Sub}

\* the targets of the jumps of JumpPrograms: backward and forward, on an
\* opcode byte and inside an operand
JumpTargets == {0, 3, 4, 6}

\* pushes of a condition, pops, and jumps of both kinds to every target
JumpStmts ==
    {True, False, Pop}
    \cup {Jump(t) : t \in JumpTargets}
    \cup {JumpNotTrue(t) : t \in JumpTargets}

JumpPrograms == {Flatten(ss) : ss \in SeqsUpTo(JumpStmts, MaxStmts)}

\* the programs of LiveSpec: every opcode and every control flow, the
\* arithmetic on few operands
LivePrograms ==
    RawPrograms \cup PrefixPrograms \cup ConditionalPrograms
        \cup {LetProgram} \cup MalformedPrograms \cup JumpPrograms

Programs ==
    RawPrograms \cup InfixPrograms \cup PrefixPrograms
        \cup ConditionalPrograms \cup GlobalPrograms \cup {LetProgram}
        \cup MalformedPrograms

-----------------------------------------------------------------------------
(* The specification *)

\* VM::new(byte_code), and run() about to test its loop condition
Init ==
    /\ instructions \in Programs
    /\ constants = ConstantPool
    /\ stack = [i \in 0..(STACK_SIZE - 1) |-> Zeroed]
    /\ globals = [i \in 0..(GLOBAL_SIZE - 1) |-> Zeroed]
    /\ sp = 0
    /\ ip = 0
    /\ pc = "run"
    /\ panic_msg = ""
    /\ trace = <<>>

Next ==
    \/ OpConstant
    \/ OpPop
    \/ OpAdd
    \/ OpSub
    \/ OpMul
    \/ OpDiv
    \/ OpTrue
    \/ OpFalse
    \/ OpEquals
    \/ OpNotEquals
    \/ OpGreaterThan
    \/ OpMinus
    \/ OpBang
    \/ OpJumpNotTrue
    \/ OpJump
    \/ OpSetGlobal
    \/ OpGetGlobal
    \/ UnhandledInstruction
    \/ RunReturn

Spec == Init /\ [][Next]_vars

\* VM::new(byte_code) on a program of LivePrograms
LiveInit ==
    /\ instructions \in LivePrograms
    /\ constants = ConstantPool
    /\ stack = [i \in 0..(STACK_SIZE - 1) |-> Zeroed]
    /\ globals = [i \in 0..(GLOBAL_SIZE - 1) |-> Zeroed]
    /\ sp = 0
    /\ ip = 0
    /\ pc = "run"
    /\ panic_msg = ""
    /\ trace = <<>>

\* run() is not suspended: while the loop has a step to take it takes one
LiveSpec == LiveInit /\ [][Next]_vars /\ WF_vars(Next)

-----------------------------------------------------------------------------
(* Vocabulary of the properties *)

\* the constant at index i of the pool
ConstAt(i) == ConstantPool[i + 1]

\* the opcode about to be dispatched, when run() is about to fetch one
Fetching(op) == pc = "run" /\ ip < Len(instructions) /\ Byte(ip) = op

\* the 2-byte big-endian operand of the instruction at address a
OperandAt(a) == Byte(a + 1) * 256 + Byte(a + 2)

\* q is the quotient of a by b truncated toward zero
IsQuotient(q, a, b) ==
    \E r \in Ints :
        /\ a = q * b + r
        /\ IF b < 0 THEN r < -b /\ -r < -b ELSE r < b /\ -r < b
        /\ r = 0 \/ (r < 0) = (a < 0)

\* the last instruction executed
LastExecuted == trace[Len(trace)]

-----------------------------------------------------------------------------
(* C1 *)

\* In C1 the constants a and b of a program Constant(i); Constant(j); ...
\* are read off its operands: i is the operand at address 0, j the one at
\* address 3.

\* C1 as stated: after run() of exactly Constant(a); Constant(b); op, for
\* integers a and b, last_popped() is Integer(a op b) for Add, Sub and Mul
\* and the integer quotient for Div when b is not 0.
C1_AsStated ==
    (Len(instructions) = 7 /\ OperandAt(0) \in ConstIdx
        /\ OperandAt(3) \in ConstIdx)
    =>  LET i == OperandAt(0)
            j == OperandAt(3)
            a == ConstAt(i).int
            b == ConstAt(j).int
            prefix == Constant(i) \o Constant(j)
        IN  (IsInteger(ConstAt(i)) /\ IsInteger(ConstAt(j)) /\ pc = "returned")
            => /\ instructions = prefix \o Add => last_popped = Integer(a + b)
               /\ instructions = prefix \o Sub => last_popped = Integer(a - b)
               /\ instructions = prefix \o Mul => last_popped = Integer(a * b)
               /\ (instructions = prefix \o Div /\ b # 0)
                    => /\ IsInteger(last_popped)
                       /\ IsQuotient(last_popped.int, a, b)

\* C1 amended: the program Constant(a); Constant(b); op; Pop, for integers a
\* and b whose result is representable, does not panic, and after run()
\* last_popped() is Integer(a + b), Integer(a - b), Integer(a * b), or for
\* Div with b not 0 the quotient of a by b.
C1_InfixThenPop ==
    (Len(instructions) = 8 /\ OperandAt(0) \in ConstIdx
        /\ OperandAt(3) \in ConstIdx)
    =>  LET i == OperandAt(0)
            j == OperandAt(3)
            a == ConstAt(i).int
            b == ConstAt(j).int
            prefix == Constant(i) \o Constant(j)
            result(n) == /\ pc # "panicked"
                         /\ pc = "returned" => last_popped = Integer(n)
        IN  (IsInteger(ConstAt(i)) /\ IsInteger(ConstAt(j)))
            => /\ (instructions = prefix \o Add \o Pop /\ a + b \in Ints)
                    => result(a + b)
               /\ (instructions = prefix \o Sub \o Pop /\ a - b \in Ints)
                    => result(a - b)
               /\ (instructions = prefix \o Mul \o Pop /\ a * b \in Ints)
                    => result(a * b)
               /\ (/\ instructions = prefix \o Div \o Pop
                   /\ b # 0
                   /\ \E q \in Ints : IsQuotient(q, a, b))
                    => /\ pc # "panicked"
                       /\ pc = "returned"
                            => /\ IsInteger(last_popped)
                               /\ IsQuotient(last_popped.int, a, b)

\* 1 - 2; has run: the last popped value is Integer(-1)
C1_Witness ==
    /\ pc = "returned"
    /\ instructions = Constant(IdxOf(Integer(1))) \o Constant(IdxOf(Integer(2)))
                        \o Sub \o Pop
    /\ last_popped = Integer(-1)

-----------------------------------------------------------------------------
(* C2 *)

\* C2: a Pop executed with sp >= 1 leaves in last_popped() the object that
\* was in slot sp - 1 just before it, whatever was popped earlier, and the
\* return of run() does not change what last_popped() gives.
C2_LastPoppedIsTop ==
    [][ /\ (Fetching(2) /\ sp >= 1)
            => /\ pc' = "run"
               /\ sp' = sp - 1
               /\ last_popped' = stack[sp - 1]
        /\ (pc = "run" /\ pc' = "returned") => last_popped' = last_popped
      ]_vars

\* run() has returned after two Pops that discarded different objects, and
\* last_popped() is the object of the second one
C2_Witness ==
    /\ pc = "returned"
    /\ \E k \in 1..(Len(trace) - 1) :
        /\ Byte(trace[k].addr) = 2
        /\ Byte(LastExecuted.addr) = 2
        /\ trace[k].popped # LastExecuted.popped
        /\ last_popped = LastExecuted.popped[1]
        /\ last_popped # trace[k].popped[1]

-----------------------------------------------------------------------------
(* C3 *)

\* the instruction executed at step k stored into, or pushed from, slot i
StoredTo(k, i) ==
    /\ Byte(trace[k].addr) = 16
    /\ trace[k].panic = ""
    /\ OperandAt(trace[k].addr) = i

PushedFrom(k, i) ==
    /\ Byte(trace[k].addr) = 17
    /\ trace[k].panic = ""
    /\ OperandAt(trace[k].addr) = i

\* C3: a GetGlobal(i) executed after a SetGlobal(i) pushes the object the
\* latest SetGlobal(i) before it popped, whatever ran in between; the
\* object is a Value and the push put it on top of the stack of that moment.
C3_GlobalRoundTrip ==
    \A i \in 0..(GLOBAL_SIZE - 1) :
        \A k \in DOMAIN trace, j \in DOMAIN trace :
            (/\ j < k
             /\ StoredTo(j, i)
             /\ PushedFrom(k, i)
             /\ \A l \in (j + 1)..(k - 1) : ~StoredTo(l, i))
            => /\ trace[k].pushed = trace[j].popped
               /\ k = Len(trace) => stack[sp - 1] = trace[j].popped[1]

\* let one = 1; let two = one + one; one + two; has run: slot 0 was read
\* after the store to slot 1, and the result is Integer(3)
C3_Witness ==
    /\ pc = "returned"
    /\ instructions = LetProgram
    /\ last_popped = Integer(3)
    /\ globals[0] = Integer(1)
    /\ globals[1] = Integer(2)

-----------------------------------------------------------------------------
(* C4 *)

\* C4: JumpNotTrue at address p with its operand in the stream: with
\* Boolean(false) on top the next fetch is at the operand's target, with
\* Boolean(true) on top it is at p + 3; either way sp drops by one and no
\* slot of the stack or of the globals changes.
C4_JumpNotTrue ==
    [][ (Fetching(14) /\ sp >= 1 /\ IsBoolean(stack[sp - 1])
            /\ ip + 2 < Len(instructions))
        => /\ pc' = "run"
           /\ stack[sp - 1] = Boolean(FALSE) => ip' = OperandAt(ip)
           /\ stack[sp - 1] = Boolean(TRUE) => ip' = ip + 3
           /\ sp' = sp - 1
           /\ stack' = stack
           /\ globals' = globals
      ]_vars

\* a JumpNotTrue has just popped Boolean(false) and jumped over a block
C4_Witness ==
    /\ pc = "run"
    /\ Len(trace) > 0
    /\ Byte(LastExecuted.addr) = 14
    /\ LastExecuted.popped = <<Boolean(FALSE)>>
    /\ ip = OperandAt(LastExecuted.addr)
    /\ ip > LastExecuted.addr + 3
    /\ ip < Len(instructions)

-----------------------------------------------------------------------------
(* C5 *)

\* the addresses of the executed instructions, in order
Addrs == [k \in 1..Len(trace) |-> trace[k].addr]

\* C5: the conditional <c>; JumpNotTrue(E); Constant(i); Pop; Jump(END);
\* E: Constant(j); Pop; END: <rest> never panics when c is True or False,
\* and when run() has returned it has executed the consequence and the Jump
\* and no byte of the alternative (c = True), or the alternative and no
\* byte of the consequence nor the Jump (c = False), then the rest from
\* END on; without a rest the last popped value is constant i for True and
\* constant j for False. (c, i, j and the rest are read off the stream.)
C5_OneBlockRuns ==
    (Len(instructions) \in {15, 19} /\ Byte(0) \in {7, 8}
        /\ OperandAt(4) \in ConstIdx /\ OperandAt(11) \in ConstIdx)
    =>  LET c == <<Byte(0)>>
            i == OperandAt(4)
            j == OperandAt(11)
            rest == SubSeq(instructions, 16, Len(instructions))
            consequence == Constant(i) \o Pop
            alternative == Constant(j) \o Pop
            consAt == Len(c) + 3
            jumpAt == consAt + Len(consequence)
            E == jumpAt + 3
            END == E + Len(alternative)
            restAddrs == IF rest = <<>> THEN <<>> ELSE <<END, END + 3>>
        IN  instructions = Conditional(c, consequence, alternative, rest)
            => /\ pc # "panicked"
               /\ pc = "returned"
                    => /\ c = True
                         => Addrs = <<0, 1, consAt, consAt + 3, jumpAt>>
                                        \o restAddrs
                       /\ c = False
                         => Addrs = <<0, 1, E, E + 3>> \o restAddrs
                       /\ ip = Len(instructions)
                       /\ rest = <<>>
                         => /\ ip = END
                            /\ last_popped
                                = IF c = True THEN ConstAt(i) ELSE ConstAt(j)

\* if (false) { 1; } else { 2; }; has run: the last popped value is 2
C5_Witness ==
    /\ pc = "returned"
    /\ instructions = Conditional(False,
                                  Constant(IdxOf(Integer(1))) \o Pop,
                                  Constant(IdxOf(Integer(2))) \o Pop, <<>>)
    /\ last_popped = Integer(2)
    /\ Len(trace) = 4

-----------------------------------------------------------------------------
(* C6 *)

\* C6: Equals / NotEquals on two Integers or two Booleans replace the two
\* operands by Boolean(left = right) / Boolean(left /= right) and go on; on
\* one Integer and one Boolean, in either order, they end run() in the
\* type-mismatch panic and write no slot of the stack.
C6_EqualsNotEquals ==
    [][ \A op \in {9, 10} :
          (Fetching(op) /\ sp >= 2)
          => LET right == stack[sp - 1]
                 left == stack[sp - 2]
                 expected == IF op = 9 THEN left = right ELSE left # right
             IN  /\ ((IsInteger(left) /\ IsInteger(right))
                        \/ (IsBoolean(left) /\ IsBoolean(right)))
                    => /\ pc' = "run"
                       /\ sp' = sp - 1
                       /\ stack' = [stack EXCEPT ![sp - 2] = Boolean(expected)]
                 /\ ((IsInteger(left) /\ IsBoolean(right))
                        \/ (IsBoolean(left) /\ IsInteger(right)))
                    => /\ pc' = "panicked"
                       /\ panic_msg' = IF op = 9
                            THEN "unhandled argument types to OpEquals"
                            ELSE "unhandled argument types to OpNotEquals"
                       /\ stack' = stack
      ]_vars

\* true != false has just been computed: Boolean(true) is on top
C6_Witness ==
    /\ Len(trace) > 0
    /\ Byte(LastExecuted.addr) = 10
    /\ LastExecuted.popped = <<Boolean(FALSE), Boolean(TRUE)>>
    /\ sp = 1
    /\ stack[0] = Boolean(TRUE)

-----------------------------------------------------------------------------
(* C7 *)

\* C7: once Constant(a); Constant(b); GreaterThan has executed, integers a
\* and b leave Boolean(a > b) alone on the stack, so that the program with
\* the constants exchanged leaves Boolean(a < b); a Boolean among a and b
\* ends run() in the type-mismatch panic.
C7_GreaterThan ==
    (Len(instructions) \in {7, 8} /\ Len(trace) = 3
        /\ OperandAt(0) \in ConstIdx /\ OperandAt(3) \in ConstIdx)
    =>  LET i == OperandAt(0)
            j == OperandAt(3)
            first == ConstAt(i)
            second == ConstAt(j)
        IN  \A tail \in {<<>>, Pop} :
            instructions = Constant(i) \o Constant(j) \o GreaterThan \o tail
            => IF IsInteger(first) /\ IsInteger(second)
               THEN /\ pc # "panicked"
                    /\ sp = 1
                    \* a = first, b = second
                    /\ stack[0] = Boolean(first.int > second.int)
                    \* the swapped emission: b = first, a = second
                    /\ stack[0] = Boolean(second.int < first.int)
               ELSE /\ pc = "panicked"
                    /\ panic_msg = "unhandled argument types to OpGreaterThan"

\* 1 < 2, emitted as Constant(2); Constant(1); GreaterThan, is true
C7_Witness ==
    /\ instructions = Constant(IdxOf(Integer(2))) \o Constant(IdxOf(Integer(1)))
                        \o GreaterThan \o Pop
    /\ Len(trace) = 3
    /\ sp = 1
    /\ stack[0] = Boolean(TRUE)

-----------------------------------------------------------------------------
(* C8 *)

\* C8 as stated: Minus replaces every Integer(n) on top of the stack by
\* Integer(-n) and Bang every Boolean(b) by Boolean(not b), with sp
\* unchanged; Minus on a Boolean and Bang on an Integer end run() in a panic.
C8_AsStated ==
    [][ (sp >= 1)
        => LET top == stack[sp - 1]
           IN  /\ (Fetching(12) /\ IsInteger(top))
                    => /\ pc' = "run"
                       /\ sp' = sp
                       /\ stack' = [stack EXCEPT ![sp - 1] = Integer(-top.int)]
               /\ (Fetching(13) /\ IsBoolean(top))
                    => /\ pc' = "run"
                       /\ sp' = sp
                       /\ stack' = [stack EXCEPT ![sp - 1] = Boolean(~top.bool)]
               /\ (Fetching(12) /\ IsBoolean(top)) => pc' = "panicked"
               /\ (Fetching(13) /\ IsInteger(top)) => pc' = "panicked"
      ]_vars

\* C8 amended: as stated, for every Integer(n) other than the least
\* integer, whose negation is not representable.
C8_MinusBang ==
    [][ (sp >= 1)
        => LET top == stack[sp - 1]
           IN  /\ (Fetching(12) /\ IsInteger(top) /\ top.int # MinInt)
                    => /\ pc' = "run"
                       /\ sp' = sp
                       /\ stack' = [stack EXCEPT ![sp - 1] = Integer(-top.int)]
               /\ (Fetching(13) /\ IsBoolean(top))
                    => /\ pc' = "run"
                       /\ sp' = sp
                       /\ stack' = [stack EXCEPT ![sp - 1] = Boolean(~top.bool)]
               /\ (Fetching(12) /\ IsBoolean(top))
                    => /\ pc' = "panicked"
                       /\ panic_msg' = "unhandled arg type to OpMinus"
               /\ (Fetching(13) /\ IsInteger(top))
                    => /\ pc' = "panicked"
                       /\ panic_msg' = "unhandled arg type to OpBang"
      ]_vars

\* -1; is being run: Minus has just replaced Integer(1) by Integer(-1)
C8_Witness ==
    /\ Len(trace) = 2
    /\ Byte(LastExecuted.addr) = 12
    /\ LastExecuted.popped = <<Integer(1)>>
    /\ pc = "run"
    /\ sp = 1
    /\ stack[0] = Integer(-1)

-----------------------------------------------------------------------------
(* C9 *)

\* the panic of each arithmetic opcode on operands that are not Integers
ArithmeticMismatch(op) ==
    CASE op = 3 -> "unhandled argument types to OpAdd"
      [] op = 4 -> "unhandled argument types to OpSub"
      [] op = 5 -> "unhandled argument types to OpMul"
      [] op = 6 -> "unhandled argument types to OpDiv"

\* C9: Add, Sub, Mul or Div with a Boolean among its two operands ends
\* run() in the type-mismatch panic, writing no slot of the stack and no
\* global; and no step is taken once run() has panicked: no instruction is
\* executed and run() does not return.
C9_ArithmeticTypeFault ==
    [][ /\ \A op \in 3..6 :
            (/\ Fetching(op)
             /\ sp >= 2
             /\ IsBoolean(stack[sp - 1]) \/ IsBoolean(stack[sp - 2]))
            => /\ pc' = "panicked"
               /\ panic_msg' = ArithmeticMismatch(op)
               /\ stack' = stack
               /\ globals' = globals
               /\ trace'[Len(trace')].pushed = <<>>
        /\ pc # "panicked"
      ]_vars

\* true + 1 has panicked
C9_Witness ==
    /\ pc = "panicked"
    /\ panic_msg = "unhandled argument types to OpAdd"
    /\ LastExecuted.popped = <<Integer(1), Boolean(TRUE)>>
    /\ LastExecuted.pushed = <<>>

-----------------------------------------------------------------------------
(* C10 *)

\* C10: a fetched byte outside 0x01..0x11 ends run() in the
\* unknown-opcode panic with the stack, sp and the globals as they were,
\* and the instruction with that byte is the last one of every trace.
C10_UnknownOpcode ==
    [][ /\ (/\ pc = "run"
            /\ ip < Len(instructions)
            /\ Byte(ip) \notin 1..17)
            => /\ pc' = "panicked"
               /\ panic_msg' = "unhandled instruction"
               /\ stack' = stack
               /\ sp' = sp
               /\ globals' = globals
        /\ \A k \in DOMAIN trace' :
            Byte(trace'[k].addr) \notin 1..17
            => /\ k = Len(trace')
               /\ pc' = "panicked"
      ]_vars

\* the byte 0x00 was fetched with an object on the stack
C10_Witness ==
    /\ pc = "panicked"
    /\ panic_msg = "unhandled instruction"
    /\ Byte(LastExecuted.addr) = 0
    /\ sp = 1
    /\ stack[0] = Boolean(TRUE)

-----------------------------------------------------------------------------
(* C11 *)

\* C11: Div on two Integers with the right operand (the top of the stack)
\* equal to 0 ends run() in the division-by-zero panic: no slot of the
\* stack is written, nothing is pushed, and an instruction that panicked is
\* the last one of every trace.
C11_DivByZero ==
    [][ /\ (/\ Fetching(6)
            /\ sp >= 2
            /\ IsInteger(stack[sp - 1]) /\ IsInteger(stack[sp - 2])
            /\ stack[sp - 1].int = 0)
            => /\ pc' = "panicked"
               /\ panic_msg' = "attempt to divide by zero"
               /\ stack' = stack
               /\ trace'[Len(trace')].pushed = <<>>
        /\ \A k \in DOMAIN trace' :
            trace'[k].panic # "" => (k = Len(trace') /\ pc' = "panicked")
      ]_vars

\* 6 / 0; has panicked
C11_Witness ==
    /\ pc = "panicked"
    /\ panic_msg = "attempt to divide by zero"
    /\ instructions = Constant(IdxOf(Integer(6))) \o Constant(IdxOf(Integer(0)))
                        \o Div \o Pop
    /\ LastExecuted.popped = <<Integer(0), Integer(6)>>
    /\ Len(trace) = 3

-----------------------------------------------------------------------------
(* C12 *)

\* the mathematical result of the arithmetic opcode op on left and right
\* (for Div: of a division whose right operand is not 0)
Arithmetic(op, left, right) ==
    CASE op = 3 -> left + right
      [] op = 4 -> left - right
      [] op = 5 -> left * right
      [] op = 6 -> CHOOSE q \in (2 * MinInt)..(2 * MaxInt + 1) :
                        IsQuotient(q, left, right)

\* the result of the comparison opcode op on the objects left and right
Comparison(op, left, right) ==
    CASE op = 9 -> left = right
      [] op = 10 -> left # right
      [] op = 11 -> left.int > right.int

\* C12: a binary opcode executed with sp >= 2 takes slot sp - 1 as its
\* right operand and slot sp - 2 as its left operand. On operands of its
\* types whose result is representable (and, for Div, a right operand that
\* is not 0) it completes; whenever it completes, sp is one lower and the
\* slot of the left operand, now the top, holds left op right (for an
\* arithmetic result that is not representable: that result wrapped to
\* the integer width), every other slot being as it was.
C12_LeftOpRight ==
    [][ \A op \in {3, 4, 5, 6, 9, 10, 11} :
          (Fetching(op) /\ sp >= 2)
          => LET right == stack[sp - 1]
                 left == stack[sp - 2]
                 ints == IsInteger(left) /\ IsInteger(right)
                 bools == IsBoolean(left) /\ IsBoolean(right)
             IN  /\ (op \in 3..6 /\ ints /\ (op = 6 => right.int # 0))
                    => LET n == Arithmetic(op, left.int, right.int)
                       IN  /\ n \in Ints => pc' = "run"
                           /\ pc' = "run"
                                => /\ sp' = sp - 1
                                   /\ \E v \in Ints :
                                        /\ (v - n) % Pow2(IntBits) = 0
                                        /\ stack' = [stack EXCEPT
                                                ![sp - 2] = Integer(v)]
                 /\ (op \in 9..11 /\ (ints \/ (bools /\ op # 11)))
                    => /\ pc' = "run"
                       /\ sp' = sp - 1
                       /\ stack' = [stack EXCEPT
                            ![sp - 2] = Boolean(Comparison(op, left, right))]
      ]_vars

\* 1 - 2 has just been computed: Integer(-1) is in the slot of the 1
C12_Witness ==
    /\ pc = "run"
    /\ Len(trace) = 3
    /\ Byte(LastExecuted.addr) = 4
    /\ LastExecuted.popped = <<Integer(2), Integer(1)>>
    /\ sp = 1
    /\ stack[0] = Integer(-1)
    /\ stack[1] = Integer(2)

-----------------------------------------------------------------------------
(* C13 *)

\* the change of sp in the opcode table
StackEffect(op) ==
    CASE op \in {1, 7, 8, 17} -> 1
      [] op \in {2, 14, 16} -> -1
      [] op \in {3, 4, 5, 6, 9, 10, 11} -> -1
      [] op \in {12, 13, 15} -> 0

\* C13: every instruction that executes without a panic changes sp by the
\* amount of the opcode table, and Jump leaves every slot of the stack as
\* it was.
C13_StackEffect ==
    [][ (pc = "run" /\ pc' = "run")
        => /\ Byte(ip) \in 1..17
           /\ sp' = sp + StackEffect(Byte(ip))
           /\ Byte(ip) = 15 => stack' = stack
      ]_vars

\* the Jump over the alternative of a conditional has just executed, after
\* pushes and pops that cancel out
C13_Witness ==
    /\ pc = "run"
    /\ Len(trace) = 5
    /\ Byte(LastExecuted.addr) = 15
    /\ Byte(trace[1].addr) = 7
    /\ Byte(trace[2].addr) = 14
    /\ Byte(trace[3].addr) = 1
    /\ Byte(trace[4].addr) = 2
    /\ sp = 0

-----------------------------------------------------------------------------
(* C14 *)

\* The stack as the pushes and pops of the first k instructions of the
\* trace define it: each instruction takes its popped objects off the top,
\* top first, and puts its pushed objects on top. ok is FALSE once an
\* instruction has popped an object that was not the top.
RECURSIVE Replay(_)
Replay(k) ==
    IF k = 0 THEN [ok |-> TRUE, live |-> <<>>]
    ELSE LET before == Replay(k - 1)
             e == trace[k]
             n == Len(e.popped)
             depth == Len(before.live)
         IN  IF ~before.ok \/ n > depth THEN [ok |-> FALSE, live |-> <<>>]
             ELSE IF \E x \in 1..n : e.popped[x] # before.live[depth + 1 - x]
             THEN [ok |-> FALSE, live |-> <<>>]
             ELSE [ok |-> TRUE,
                   live |-> SubSeq(before.live, 1, depth - n) \o e.pushed]

\* C14: in every state the slots below sp hold, in order, exactly the
\* objects pushed by this run and not popped since, none of them a zeroed
\* slot, and every object an instruction consumed was the top of the stack
\* (slot sp - 1) of that moment.
C14_StackDiscipline ==
    LET replayed == Replay(Len(trace))
        live == replayed.live
    IN  /\ replayed.ok
        /\ sp = Len(live)
        /\ \A i \in 0..(sp - 1) : stack[i] = live[i + 1] /\ stack[i] # Zeroed

\* let one = 1; let two = one + one; one + two; is about to add: the two
\* slots below sp hold the objects pushed last, and slot 2 was never used
C14_Witness ==
    /\ instructions = LetProgram
    /\ Len(trace) = 8
    /\ sp = 2
    /\ stack[0] = Integer(1)
    /\ stack[1] = Integer(2)
    /\ stack[2] = Zeroed

-----------------------------------------------------------------------------
(* C15 *)

\* the bytes an instruction with opcode op occupies
Width(op) == IF op \in {1, 14, 15, 16, 17} THEN 3 ELSE 1

\* the addresses of the opcode bytes: the stream decoded from address a on
RECURSIVE StartsFrom(_)
StartsFrom(a) ==
    IF a >= Len(instructions) THEN {}
    ELSE {a} \cup StartsFrom(a + Width(Byte(a)))

Starts == StartsFrom(0)

\* every jump of the stream targets the start of an instruction, or the end
\* of the stream
JumpsToStarts ==
    \A a \in Starts :
        (Byte(a) \in {14, 15} /\ a + 2 < Len(instructions))
        => OperandAt(a) \in Starts \cup {Len(instructions)}

\* C15: ip starts at 0. An instruction at p that executes without a panic
\* continues at p + 1 if it has no operand, at p + 3 for Constant,
\* SetGlobal, GetGlobal and a JumpNotTrue that popped true, and at its
\* operand's target for Jump and a JumpNotTrue that popped false. In a
\* stream whose jumps target instruction starts every fetch is at an opcode
\* byte. run() returns exactly from a state with ip at or beyond the
\* stream length.
C15_InstructionPointer ==
    /\ ip = 0
    /\ [][ /\ (pc = "run" /\ pc' = "run")
                => ip' = CASE Byte(ip) \in {1, 16, 17} -> ip + 3
                           [] Byte(ip) = 14 ->
                                IF stack[sp - 1] = Boolean(TRUE) THEN ip + 3
                                ELSE OperandAt(ip)
                           [] Byte(ip) = 15 -> OperandAt(ip)
                           [] OTHER -> ip + 1
           /\ pc' = "returned" <=> (pc = "run" /\ ip >= Len(instructions))
           /\ (JumpsToStarts /\ pc' = "run" /\ ip' < Len(instructions))
                => ip' \in Starts
         ]_vars

\* the Jump at the end of a consequence has just jumped over the
\* alternative to the instruction that follows the conditional
C15_Witness ==
    /\ pc = "run"
    /\ JumpsToStarts
    /\ Len(trace) > 0
    /\ Byte(LastExecuted.addr) = 15
    /\ ip = OperandAt(LastExecuted.addr)
    /\ ip > LastExecuted.addr + 3
    /\ ip < Len(instructions)
    /\ ip \in Starts

-----------------------------------------------------------------------------
(* C16 *)

\* C16: no step changes the instruction stream or the constant pool; a
\* step that changes the globals table is a SetGlobal, and it changes no
\* slot other than the one its operand names.
C16_GlobalsFrame ==
    [][ /\ instructions' = instructions
        /\ constants' = constants
        /\ globals' # globals
            => /\ Fetching(16)
               /\ \A g \in 0..(GLOBAL_SIZE - 1) :
                    g # OperandAt(ip) => globals'[g] = globals[g]
      ]_vars

\* a SetGlobal(1) has just stored true, after reads of slot 0: slot 0 still
\* holds Integer(1)
C16_Witness ==
    /\ Len(trace) >= 5
    /\ Byte(LastExecuted.addr) = 16
    /\ OperandAt(LastExecuted.addr) = 1
    /\ \E k \in DOMAIN trace : PushedFrom(k, 0)
    /\ globals[0] = Integer(1)
    /\ globals[1] = Boolean(TRUE)

-----------------------------------------------------------------------------
(* C17 *)

\* the opcodes whose instruction starts with a pop (SetGlobal after its
\* operand), those that pop twice, and those that only push
PopFirst == {2, 3, 4, 5, 6, 9, 10, 11, 12, 13, 14, 16}
PopTwice == {3, 4, 5, 6, 9, 10, 11}
PushOnly == {1, 7, 8, 17}

\* C17: on every instruction stream sp is within 0..STACK_SIZE in every
\* state. An instruction that pops at sp = 0 (a binary one also at sp = 1,
\* for its second pop) ends run() in a panic with sp = 0, and one that
\* pushes at sp = STACK_SIZE ends run() in a panic with sp = STACK_SIZE: no
\* step continues run() from there.
C17_StackPointerInRange ==
    /\ [](sp \in 0..STACK_SIZE)
    /\ [][ /\ (Fetching(Byte(ip)) /\ sp = 0 /\ Byte(ip) \in PopFirst)
                => pc' = "panicked" /\ sp' = 0
           /\ (Fetching(Byte(ip)) /\ sp = 1 /\ Byte(ip) \in PopTwice)
                => pc' = "panicked" /\ sp' = 0
           /\ (Fetching(Byte(ip)) /\ sp = STACK_SIZE /\ Byte(ip) \in PushOnly)
                => pc' = "panicked" /\ sp' = STACK_SIZE
         ]_vars

\* True; Jump(0) has filled the stack, and the next True has panicked
C17_Witness ==
    /\ pc = "panicked"
    /\ sp = STACK_SIZE
    /\ Len(trace) > STACK_SIZE
    /\ Byte(LastExecuted.addr) = 7
    /\ LastExecuted.pushed = <<>>
    /\ \A i \in 0..(STACK_SIZE - 1) : stack[i] = Boolean(TRUE)

-----------------------------------------------------------------------------
(* C18 *)

\* every Jump and JumpNotTrue the stream decodes to, opcode byte after
\* opcode byte from address 0, has a target beyond its own address
DecodedJumpsForward ==
    \A a \in Starts :
        (Byte(a) \in {14, 15} /\ a + 2 < Len(instructions))
        => OperandAt(a) > a

\* every address holding the opcode byte of a Jump or JumpNotTrue, at an
\* instruction start or inside an operand, is followed by a target beyond
\* that address
ForwardOnly ==
    \A a \in 0..(Len(instructions) - 1) :
        (Byte(a) \in {14, 15} /\ a + 2 < Len(instructions))
        => OperandAt(a) > a

\* C18 as stated: run() terminates, with ip increasing at every instruction
\* and at most Len(instructions) instructions executed, on every stream
\* whose Jump and JumpNotTrue instructions have targets greater than their
\* addresses.
C18_AsStated ==
    /\ DecodedJumpsForward => <>(pc # "run")
    /\ [][(DecodedJumpsForward /\ pc = "run" /\ pc' = "run")
            => ip' > ip]_vars
    /\ [](DecodedJumpsForward => Len(trace) <= Len(instructions))

\* C18: run() terminates, with ip increasing at every instruction and at
\* most Len(instructions) instructions executed, on every stream in which
\* every byte that reads as a Jump or JumpNotTrue opcode, wherever it is,
\* has a target greater than its address; the bound on the steps of the
\* exploration is never what stops such a run.
C18_ForwardTerminates ==
    /\ ForwardOnly => <>(pc # "run")
    /\ [][(ForwardOnly /\ pc = "run" /\ pc' = "run") => ip' > ip]_vars
    /\ [](ForwardOnly => Len(trace) <= Len(instructions))
    /\ [](ForwardOnly /\ Fetching(Byte(ip)) => Len(trace) < MaxSteps)

\* a conditional has run to its end over a JumpNotTrue and a Jump, both
\* forward
C18_Witness ==
    /\ ForwardOnly
    /\ pc = "returned"
    /\ \E j, k \in DOMAIN trace :
        /\ Byte(trace[j].addr) = 14
        /\ Byte(trace[k].addr) = 15
        /\ j < k

-----------------------------------------------------------------------------
(* C19 *)

\* C19 as stated: a Div on integers left and right with right not 0 pushes
\* Integer(q), q the quotient of left by right truncated toward zero.
C19_AsStated ==
    [][ (/\ Fetching(6)
         /\ sp >= 2
         /\ IsInteger(stack[sp - 1]) /\ IsInteger(stack[sp - 2])
         /\ stack[sp - 1].int # 0)
        => /\ pc' = "run"
           /\ sp' = sp - 1
           /\ IsInteger(stack'[sp - 2])
           /\ IsQuotient(stack'[sp - 2].int, stack[sp - 2].int,
                         stack[sp - 1].int)
      ]_vars

\* C19: a Div on integers left and right with right not 0, and not the
\* least integer divided by -1, pushes Integer(q), q the quotient of left
\* by right truncated toward zero: -7 / 2 is Integer(-3). The least integer
\* divided by -1 panics.
C19_DivTruncates ==
    [][ (/\ Fetching(6)
         /\ sp >= 2
         /\ IsInteger(stack[sp - 1]) /\ IsInteger(stack[sp - 2])
         /\ stack[sp - 1].int # 0)
        => LET left == stack[sp - 2].int
               right == stack[sp - 1].int
           IN  IF left = MinInt /\ right = -1
               THEN pc' = "panicked" /\ stack' = stack
               ELSE /\ pc' = "run"
                    /\ sp' = sp - 1
                    /\ IsInteger(stack'[sp - 2])
                    /\ IsQuotient(stack'[sp - 2].int, left, right)
                    /\ (left = -7 /\ right = 2) => stack'[sp - 2] = Integer(-3)
      ]_vars

\* -7 / 2 has just been computed: Integer(-3)
C19_Witness ==
    /\ pc = "run"
    /\ Len(trace) = 3
    /\ Byte(LastExecuted.addr) = 6
    /\ LastExecuted.popped = <<Integer(2), Integer(-7)>>
    /\ LastExecuted.pushed = <<Integer(-3)>>
    /\ sp = 1
    /\ stack[0] = Integer(-3)

=============================================================================
